---- MODULE Spec2Model ----
(***************************************************************************)
(* Reliable file transfer over UDP (Go-Back-N): the sender of              *)
(* src/client/main.c, the receiver of src/server/main.c and the packet     *)
(* conventions of src/common/protocol.c, as a state machine.               *)
(*                                                                         *)
(* Datagrams are records holding the decoded header fields and the payload *)
(* octets.  32-bit CRC values are pairs <<high 16 bits, low 16 bits>>.     *)
(* Clock values are milliseconds; all clock values of the model are far    *)
(* below 2^31, where the (uint32_t) cast of the session id is the identity.*)
(* fwrite is taken to write every octet it is given (a working disk);      *)
(* fopen may fail.                                                         *)
(***************************************************************************)
EXTENDS Integers, Sequences, FiniteSets, TLC

(* ------------------------------------------------------------------ *)
(* Program constants                                                   *)
(* ------------------------------------------------------------------ *)
PT_HANDSHAKE == 0
PT_HANDSHAKE_ACK == 1
PT_DATA == 2
PT_ACK == 3
PT_FIN == 4
PT_FIN_ACK == 5
PT_ERROR == 6

MAX_SESSIONS == 100
IDLE_MS == 30000
SWEEP_MS == 10000
SERVER_WINDOW == 8
PIPE == 124
ASCII_ZERO == 48

\* "bad handshake" and "no session" as ASCII octets.
ERR_BAD_HANDSHAKE == <<98, 97, 100, 32, 104, 97, 110, 100, 115, 104, 97, 107, 101>>
ERR_NO_SESSION == <<110, 111, 32, 115, 101, 115, 115, 105, 111, 110>>

(* ------------------------------------------------------------------ *)
(* Bounds of the model                                                 *)
(* ------------------------------------------------------------------ *)
MaxFileSize == 2
MaxTicks == 1
MaxSeq == 2
MaxRetries == 2

ChunkSizes == {1, 2}
WindowSizes == {1, 2}
RetryLimits == {1}
TickMs == IDLE_MS + 1

(* ------------------------------------------------------------------ *)
(* CRC-32 (reflected, polynomial 0xEDB88320) on <<hi16, lo16>> pairs    *)
(* ------------------------------------------------------------------ *)
RECURSIVE BitXor(_, _)
BitXor(a, b) ==
    IF a = 0 THEN b
    ELSE IF b = 0 THEN a
    ELSE (((a % 2) + (b % 2)) % 2) + 2 * BitXor(a \div 2, b \div 2)

Xor32(x, y) == <<BitXor(x[1], y[1]), BitXor(x[2], y[2])>>

Shr1(c) == <<c[1] \div 2, (c[2] \div 2) + (c[1] % 2) * 32768>>

Shr8(c) == <<c[1] \div 256, (c[2] \div 256) + (c[1] % 256) * 256>>

POLY == <<60856, 33568>>

ALL_ONES == <<65535, 65535>>

\* init_table's inner loop: j rounds of the shift-and-xor step on c.
RECURSIVE CrcRounds(_, _)
CrcRounds(c, j) ==
    IF j = 0 THEN c
    ELSE CrcRounds(IF c[2] % 2 = 1 THEN Xor32(POLY, Shr1(c)) ELSE Shr1(c), j - 1)

table == [i \in 0..255 |-> CrcRounds(<<0, i>>, 8)]

RECURSIVE CrcLoop(_, _)
CrcLoop(c, data) ==
    IF data = <<>> THEN c
    ELSE CrcLoop(Xor32(table[BitXor(c[2] % 256, Head(data))], Shr8(c)), Tail(data))

Crc32Compute(data) == Xor32(CrcLoop(ALL_ONES, data), ALL_ONES)

ZERO32 == <<0, 0>>

\* One bit of a payload flipped in transit (the top bit of its first octet).
Flip(payload) == [payload EXCEPT ![1] = (payload[1] + 128) % 256]

\* The source file: n octets, octet i holding the value i.
FileData(n) == [i \in 1..n |-> i]

\* The file sizes of the single-loss scenario: each makes four packets with
\* one of the chunk sizes.
LossSizes == {4, 7, 8}

\* The payloads the model sends, intact or corrupted; their CRCs are computed
\* once, any other payload's when it is needed.
KnownPayloads ==
    LET Pieces == UNION {{SubSeq(FileData(n), i, j) : i, j \in 1..n} :
                         n \in 0..(MaxFileSize + 1) \cup LossSizes}
    IN  Pieces \cup {Flip(d) : d \in Pieces \ {<<>>}}

Crc32Known == [d \in KnownPayloads |-> Crc32Compute(d)]

ru_crc32(data) ==
    IF data \in KnownPayloads THEN Crc32Known[data] ELSE Crc32Compute(data)

(* ------------------------------------------------------------------ *)
(* Packets and pack()'s checksum rule                                  *)
(* ------------------------------------------------------------------ *)
\* A Packet after memset(0): every field zero, no payload.
BlankPacket(ptype) ==
    [ptype |-> ptype, seq |-> 0, total |-> 0, window |-> 0,
     checksum |-> ZERO32, payload |-> <<>>]

\* Faulty variant: the CRC is filled in for every type of packet.
PackChecksum_AnyType(p) ==
    IF p.checksum = ZERO32 /\ Len(p.payload) > 0 THEN ru_crc32(p.payload) ELSE p.checksum

\* Faulty variant: the CRC of a DATA payload replaces whatever the field held.
PackChecksum_Recomputed(p) ==
    IF p.ptype = PT_DATA /\ Len(p.payload) > 0 THEN ru_crc32(p.payload) ELSE p.checksum

\* pack(): the checksum that goes on the wire.
PackChecksum(p) ==
    IF /\ p.ptype = PT_DATA /\ p.checksum = ZERO32
       /\ "null" \notin DOMAIN p /\ Len(p.payload) > 0
    THEN ru_crc32(p.payload)
    ELSE p.checksum

\* pack() followed by unpack(): the packet the peer decodes.
OnWire(p) == [p EXCEPT !.checksum = PackChecksum(p)]

(* ------------------------------------------------------------------ *)
(* The codec, octet by octet. A datagram is a sequence of octets; a     *)
(* Packet struct is a record whose 32-bit fields are pairs <<hi, lo>>   *)
(* of 16-bit halves and whose payload_size is Len(payload)              *)
(* ------------------------------------------------------------------ *)
MAGIC0 == 82

MAGIC1 == 85

VERSION == 1

HEADER_SIZE == 20

\* Faulty variant: the low octet goes first.
U16Bytes_LowFirst(v) == <<v % 256, v \div 256>>

\* htons() and memcpy(): a 16-bit value as two octets, the high one first.
U16Bytes(v) == <<v \div 256, v % 256>>

\* htonl() and memcpy().
U32Bytes(w) == U16Bytes(w[1]) \o U16Bytes(w[2])

\* memcpy() and ntohs() of the two octets at offset off (counted from 0).
U16At(buf, off) == buf[off + 1] * 256 + buf[off + 2]

\* memcpy() and ntohl() of the four octets at offset off.
U32At(buf, off) == <<U16At(buf, off), U16At(buf, off + 2)>>

pack(p) ==
    <<p.magic0, p.magic1, p.version, p.ptype>>
    \o U32Bytes(p.seq) \o U32Bytes(p.total)
    \o U16Bytes(Len(p.payload) % 65536) \o U16Bytes(p.window)
    \o U32Bytes(PackChecksum(p))
    \o p.payload

\* The Packet struct as the programs fill it in before pack(): memset(0), then
\* magic, version, type and the fields the packet carries.
Struct(p) ==
    [magic0 |-> MAGIC0, magic1 |-> MAGIC1, version |-> VERSION, ptype |-> p.ptype,
     seq |-> <<0, p.seq>>, total |-> <<0, p.total>>, length |-> 0,
     window |-> p.window, checksum |-> p.checksum, payload |-> p.payload]

\* Faulty variant: the version octet is not looked at.
BadMagic_AnyVersion(buf) == buf[1] # MAGIC0 \/ buf[2] # MAGIC1

\* unpack(): the test on magic and version.
BadMagic(buf) == buf[1] # MAGIC0 \/ buf[2] # MAGIC1 \/ buf[3] # VERSION

\* Faulty variant: a datagram must be longer than what its length declares.
Truncated_NoExactFit(length, n) == HEADER_SIZE + length >= n

\* unpack(): the declared length reaches beyond the n octets received.
Truncated(length, n) == HEADER_SIZE + length > n

\* unpack(): its return value and, on success, the Packet it fills in
\* (malloc() of the payload is taken to succeed).
unpack(buf) ==
    IF Len(buf) < HEADER_SIZE THEN [rc |-> -1]
    ELSE IF BadMagic(buf) THEN [rc |-> -2]
    ELSE IF Truncated(U16At(buf, 12), Len(buf)) THEN [rc |-> -3]
    ELSE [rc |-> 0,
          p  |-> [magic0 |-> buf[1], magic1 |-> buf[2], version |-> buf[3],
                  ptype |-> buf[4], seq |-> U32At(buf, 4), total |-> U32At(buf, 8),
                  length |-> U16At(buf, 12), window |-> U16At(buf, 14),
                  checksum |-> U32At(buf, 16),
                  payload |-> SubSeq(buf, HEADER_SIZE + 1, HEADER_SIZE + U16At(buf, 12))]]

(* ------------------------------------------------------------------ *)
(* Chunking of the source file (sender)                                *)
(* ------------------------------------------------------------------ *)
\* Faulty variant: rounds up even what divides evenly.
TotalPackets_CountsTail(filesize, chunk) == filesize \div chunk + 1

TotalPackets(filesize, chunk) == (filesize + chunk - 1) \div chunk

ChunkLen(i, filesize, chunk) ==
    IF i * chunk + chunk > filesize THEN filesize - i * chunk ELSE chunk

\* Faulty variant: the offset is counted in chunks of this chunk's length.
Chunk_OwnLengthOffset(i, data, chunk) ==
    SubSeq(data, i * ChunkLen(i, Len(data), chunk) + 1,
           (i + 1) * ChunkLen(i, Len(data), chunk))

\* chunks[i]: the octets data[off .. off+len), i counted from 0.
Chunk(i, data, chunk) ==
    SubSeq(data, i * chunk + 1, i * chunk + ChunkLen(i, Len(data), chunk))

RECURSIVE Concat(_, _, _)
\* chunks[0] .. chunks[n-1] joined.
Concat(n, data, chunk) ==
    IF n = 0 THEN <<>>
    ELSE Concat(n - 1, data, chunk) \o Chunk(n - 1, data, chunk)

(* ------------------------------------------------------------------ *)
(* Handshake metadata: "name|filesize|total|chunk|window"              *)
(* ------------------------------------------------------------------ *)
RECURSIVE Decimal(_)
\* snprintf("%d"/"%zu"/"%ld") of a non-negative number, as ASCII octets.
Decimal(n) ==
    IF n < 10 THEN <<ASCII_ZERO + n>>
    ELSE Decimal(n \div 10) \o <<ASCII_ZERO + (n % 10)>>

Meta(fname, filesize, total, chunk, window) ==
    fname \o <<PIPE>> \o Decimal(filesize) \o <<PIPE>> \o Decimal(total)
          \o <<PIPE>> \o Decimal(chunk) \o <<PIPE>> \o Decimal(window)

RECURSIVE SplitFrom(_, _, _)
\* split(): cur is the part being collected, s the octets still to read.
SplitFrom(s, delim, cur) ==
    IF s = <<>> \/ Head(s) = 0 THEN <<cur>>
    ELSE IF Head(s) = delim THEN <<cur>> \o SplitFrom(Tail(s), delim, <<>>)
    ELSE SplitFrom(Tail(s), delim, Append(cur, Head(s)))

split(s, delim) == SplitFrom(s, delim, <<>>)

RECURSIVE AtollFrom(_, _)
\* atoll() on an unsigned decimal prefix: acc is the value read so far.
AtollFrom(s, acc) ==
    IF s = <<>> \/ Head(s) < ASCII_ZERO \/ Head(s) > ASCII_ZERO + 9 THEN acc
    ELSE AtollFrom(Tail(s), acc * 10 + (Head(s) - ASCII_ZERO))

atoll(s) == AtollFrom(s, 0)

(* ------------------------------------------------------------------ *)
(* Receiver: session table and datagram handlers                       *)
(* ------------------------------------------------------------------ *)
\* Index of the first session of the peer, 0 when there is none.
find_session(sessions, key) ==
    IF \E i \in 1..Len(sessions) : sessions[i].key = key
    THEN CHOOSE i \in 1..Len(sessions) :
            /\ sessions[i].key = key
            /\ \A j \in 1..(i - 1) : sessions[j].key # key
    ELSE 0

\* Faulty variant: the sessions behind the removed one are lost with it.
remove_session_DropsTail(sessions, index) == SubSeq(sessions, 1, index - 1)

remove_session(sessions, index) ==
    SubSeq(sessions, 1, index - 1) \o SubSeq(sessions, index + 1, Len(sessions))

\* Faulty variant: the peer's old session is left in the table.
cleanup_old_session_Keeps(sessions, key) == sessions

cleanup_old_session(sessions, key) ==
    IF find_session(sessions, key) = 0 THEN sessions
    ELSE remove_session(sessions, find_session(sessions, key))

Idle(s, now) == now - s.last_activity > IDLE_MS

cleanup_inactive_sessions(sessions, now) ==
    SelectSeq(sessions, LAMBDA s : ~Idle(s, now))

\* Faulty variant: the ACK names the next packet wanted.
AckSeq_Next(expected) == expected

\* The seq of the cumulative ACK for a session whose counter is expected.
AckSeq(expected) == IF expected > 0 THEN expected - 1 ELSE 0

AckPacket(s) == [BlankPacket(PT_ACK) EXCEPT !.seq = AckSeq(s.expected)]

ErrorPacket(msg) == [BlankPacket(PT_ERROR) EXCEPT !.payload = msg]

\* Faulty variant: the checksum is never verified.
ChecksumOk_Skipped(p) == TRUE

ChecksumOk(p) == ru_crc32(p.payload) = p.checksum

\* Faulty variant: packets at or below expected are written again.
InOrder_OrEarlier(p, s) == p.seq <= s.expected

InOrder(p, s) == p.seq = s.expected

\* Faulty variant: received is not counted.
Advance_NoReceived(s) == [s EXCEPT !.expected = s.expected + 1]

\* The session after an in-order DATA packet was written to its sink.
Advance(s) == [s EXCEPT !.expected = s.expected + 1, !.received = s.received + 1]

\* Faulty variant: the session is kept although no file was opened.
OpenTruncate_NoFile(disk, path) == disk

\* fopen(path, "wb"): the file exists and is empty afterwards.
OpenTruncate(disk, path) == (path :> <<>>) @@ disk

\* fwrite(payload) on the sink of session s.
WriteSink(disk, s, payload) == [disk EXCEPT ![s.path] = disk[s.path] \o payload]

\* The new Session of a HANDSHAKE whose metadata split into parts.
NewSession(parts, key, now) ==
    [key |-> key, filename |-> parts[1], total |-> atoll(parts[3]),
     expected |-> 0, received |-> 0, last_activity |-> now,
     session_id |-> now, path |-> <<parts[1], now, key>>]

\* st = [sessions, disk]; the result adds out, the datagrams sent back.
Reply(st, out) ==
    [sessions |-> st.sessions, disk |-> st.disk, out |-> out]

\* Faulty variant: the table takes one session more than it holds.
TableFull_OffByOne(sessions) == Len(sessions) > MAX_SESSIONS

\* The capacity test on the table after the peer's old session was removed.
TableFull(sessions) == Len(sessions) >= MAX_SESSIONS

\* Faulty variant: a handshake over capacity is answered with an ERROR.
CapacityReply_Error == <<ErrorPacket(<<>>)>>

\* What is sent back for a handshake over capacity: nothing.
CapacityReply == <<>>

\* Faulty variant: the peer's session is closed before the fields are counted.
AfterBadHandshake_Closed(sessions, key) == cleanup_old_session(sessions, key)

\* The table after a HANDSHAKE with too few fields was answered: as it was.
AfterBadHandshake(sessions, key) == sessions

OnHandshake(st, now, key, p, fopen_ok) ==
    LET parts == split(p.payload, PIPE)
        cleaned == cleanup_old_session(st.sessions, key)
        s == NewSession(parts, key, now)
    IN  IF Len(parts) < 5
        THEN Reply([st EXCEPT !.sessions = AfterBadHandshake(st.sessions, key)],
                   <<ErrorPacket(ERR_BAD_HANDSHAKE)>>)
        ELSE IF TableFull(cleaned)
        THEN Reply([st EXCEPT !.sessions = cleaned], CapacityReply)
        ELSE IF ~fopen_ok
        THEN Reply([st EXCEPT !.sessions = cleaned], <<>>)
        ELSE Reply([sessions |-> Append(cleaned, s),
                    disk |-> OpenTruncate(st.disk, s.path)],
                   <<[BlankPacket(PT_HANDSHAKE_ACK) EXCEPT
                        !.total = s.total, !.window = SERVER_WINDOW]>>)

OnData(st, now, key, p) ==
    LET i == find_session(st.sessions, key)
        s == [st.sessions[i] EXCEPT !.last_activity = now]
    IN  IF i = 0
        THEN Reply(st, <<ErrorPacket(ERR_NO_SESSION)>>)
        ELSE IF ~ChecksumOk(p)
        THEN Reply([st EXCEPT !.sessions[i] = s], <<AckPacket(s)>>)
        ELSE IF InOrder(p, s)
        THEN Reply([st EXCEPT !.sessions[i] = Advance(s),
                              !.disk = WriteSink(st.disk, s, p.payload)],
                   <<AckPacket(Advance(s))>>)
        ELSE Reply([st EXCEPT !.sessions[i] = s], <<AckPacket(s)>>)

\* Faulty variant: a FIN without a session is not answered.
FinReply_OnlyWithSession(i) == IF i = 0 THEN <<>> ELSE <<BlankPacket(PT_FIN_ACK)>>

\* What is sent back for a FIN; i is the index of the peer's session, or 0.
FinReply(i) == <<BlankPacket(PT_FIN_ACK)>>

OnFin(st, key) ==
    LET i == find_session(st.sessions, key)
    IN  Reply([st EXCEPT !.sessions =
                    IF i = 0 THEN st.sessions ELSE remove_session(st.sessions, i)],
              FinReply(i))

\* One iteration of the receiver's loop on a decoded datagram p from key.
ServerHandle(st, now, key, p, fopen_ok) ==
    IF p.ptype = PT_HANDSHAKE THEN OnHandshake(st, now, key, p, fopen_ok)
    ELSE IF p.ptype = PT_DATA THEN OnData(st, now, key, p)
    ELSE IF p.ptype = PT_FIN THEN OnFin(st, key)
    ELSE Reply(st, <<>>)

(* ------------------------------------------------------------------ *)
(* State                                                               *)
(* ------------------------------------------------------------------ *)
VARIABLES
    codec,           \* codec: a buffer on its way through unpack() and pack()
    params,          \* sender: [filesize, chunk, window, max_retries], fixed at start
    pc,              \* sender: position in main()
    tries,           \* sender: tries of the handshake / FIN loop
    base,            \* sender: oldest unacknowledged seq
    nextseq,         \* sender: next seq to transmit
    retries,         \* sender: the Phase 2 retry counter
    timer_running,   \* sender: retransmit timer armed
    exit_code,       \* sender: -1 while running, else main()'s return value
    since_progress,  \* history: timer expiries since base last increased
    err_seen,        \* history: an ERROR packet was received in Phase 2
    toR,             \* datagrams on their way to the receiver
    toS,             \* datagrams on their way to the sender
    net,             \* the channel's discipline, fixed at start
    sessions,        \* receiver: the session table, sessions[1..session_count]
    disk,            \* receiver: the files of the output directory, by path
    now,             \* the clock, ms
    last_cleanup     \* receiver: time of the last idle sweep

sndVars == <<pc, tries, base, nextseq, retries, timer_running, exit_code, since_progress,
            err_seen>>
rcvVars == <<sessions, disk, last_cleanup>>
netVars == <<toR, toS>>
vars == <<params, codec, sndVars, netVars, net, rcvVars, now>>

Peers == {"A", "B"}
SenderKey == "A"
\* The basename of the source path: "f".
FNAME == <<102>>

data == FileData(params.filesize)
total == TotalPackets(params.filesize, params.chunk)

Min(a, b) == IF a < b THEN a ELSE b

(* ------------------------------------------------------------------ *)
(* Channel                                                             *)
(*   lossy: a set; a datagram in it may be delivered at any time, any   *)
(*          number of times, in any order, or never                     *)
(*   fifo : a queue delivered in order, each datagram once              *)
(* ------------------------------------------------------------------ *)
Range(q) == {q[i] : i \in 1..Len(q)}

Lossy == net.mode = "lossy"

Receivable(ch) == IF Lossy THEN ch ELSE IF ch = <<>> THEN {} ELSE {Head(ch)}

Taken(ch) == IF Lossy THEN ch ELSE Tail(ch)

Put(ch, pkts) == IF Lossy THEN ch \cup Range(pkts) ELSE ch \o pkts

Quiet == IF Lossy THEN FALSE ELSE toR = <<>> /\ toS = <<>>

\* A wait of timeout_ms can end without a reply: at any time on the lossy
\* channel, and on the fifo channel once nothing is in flight.
MayExpire == IF Lossy THEN TRUE ELSE Quiet

\* recvfrom() may find nothing: at any time on the lossy channel, and on the
\* fifo channel when its queue is empty.
MayFindNothing(ch) == IF Lossy THEN TRUE ELSE ch = <<>>

\* The fifo channel's single fault on the first transmission of DATA net.seq.
Hit(p) ==
    IF Lossy THEN FALSE ELSE ~net.done /\ p.ptype = PT_DATA /\ p.seq = net.seq

RECURSIVE Faulted(_)
Faulted(pkts) ==
    IF pkts = <<>> THEN <<>>
    ELSE IF Hit(Head(pkts))
         THEN (IF net.kind = "lose" THEN <<>>
               ELSE <<[Head(pkts) EXCEPT !.payload = Flip(Head(pkts).payload)]>>)
              \o Tail(pkts)
         ELSE <<Head(pkts)>> \o Faulted(Tail(pkts))

\* The seq of each packet of type ptype in pkts, in order.
RECURSIVE SeqsOf(_, _)
SeqsOf(pkts, ptype) ==
    IF pkts = <<>> THEN <<>>
    ELSE (IF Head(pkts).ptype = ptype THEN <<Head(pkts).seq>> ELSE <<>>)
         \o SeqsOf(Tail(pkts), ptype)

\* Where the channel keeps a log, the seq of every DATA packet handed to
\* sendto() is appended to it, lost in transit or not.
Logged(n, pkts) ==
    IF "sent" \in DOMAIN n THEN [n EXCEPT !.sent = @ \o SeqsOf(pkts, PT_DATA)] ELSE n

NetAfter(pkts) ==
    Logged(IF \E i \in 1..Len(pkts) : Hit(pkts[i]) THEN [net EXCEPT !.done = TRUE]
           ELSE net, pkts)

\* sendto() of the sender, for each packet of pkts in order.
SenderSends(pkts) ==
    /\ toR' = Put(toR, Faulted([i \in 1..Len(pkts) |-> OnWire(pkts[i])]))
    /\ net' = NetAfter(pkts)

(* ------------------------------------------------------------------ *)
(* Sender                                                              *)
(* ------------------------------------------------------------------ *)
HandshakePacket ==
    [BlankPacket(PT_HANDSHAKE) EXCEPT
        !.payload = Meta(FNAME, params.filesize, total, params.chunk, params.window)]

DataPacket(s) ==
    [BlankPacket(PT_DATA) EXCEPT
        !.seq = s, !.total = total, !.window = params.window,
        !.payload = Chunk(s, data, params.chunk)]

\* The values an octet of malloc()ed memory that was never written may hold.
JunkOctets == {0, 255}

\* The DATA packet for a chunk that was freed: payload is NULL (marked by the
\* field null) while payload_size is still the chunk's, so pack() computes no
\* CRC and copies nothing into the octets after the header.
FreedPacket(s, junk) ==
    [null |-> TRUE] @@ [DataPacket(s) EXCEPT !.payload = [i \in 1..Len(@) |-> junk]]

\* The packets of the window-fill loop: those below base were freed by an ACK
\* that acknowledged them before they were sent.
FillRun(first, last, junk) ==
    [i \in 1..(IF last > first THEN last - first ELSE 0) |->
        IF first + i - 1 < base THEN FreedPacket(first + i - 1, junk)
        ELSE DataPacket(first + i - 1)]

\* Faulty variant: only the oldest outstanding packet is sent again.
DataRun_OldestOnly(first, last) ==
    [i \in 1..(IF last > first THEN 1 ELSE 0) |-> DataPacket(first)]

\* DATA packets first .. last-1 in ascending order.
DataRun(first, last) ==
    [i \in 1..(IF last > first THEN last - first ELSE 0) |-> DataPacket(first + i - 1)]

\* Faulty variant: the window test is off by one.
FillLimit_OffByOne(b, n, w, t) ==
    IF n < Min(t, b + w + 1) THEN Min(t, b + w + 1) ELSE n

\* nextseq when the window-fill loop ends.
FillLimit(b, n, w, t) == IF n < Min(t, b + w) THEN Min(t, b + w) ELSE n

\* timer_running when the window-fill loop ends.
TimerAfterFill(b, n, running, limit) == running \/ (n < limit /\ b = n)

\* Faulty variant: every ACK moves base, also one below it.
AckMovesBase_AnyAck(p, b) == p.ptype = PT_ACK

\* Faulty variant: an ACK of the packet at base does not count.
AckMovesBase_Strict(p, b) == p.ptype = PT_ACK /\ p.seq > b

\* An inbound packet moves base.
AckMovesBase(p, b) == p.ptype = PT_ACK /\ p.seq >= b

\* Faulty variant: base skips the packet after the acknowledged one.
NewBase_Skips(p) == p.seq + 2

NewBase(p) == p.seq + 1

\* What recvfrom() and unpack() hand to the sender for a datagram d of the
\* channel: d itself where the channel carries packets, the Packet unpack()
\* fills in where it carries a buffer [raw |-> octets], and a packet of no
\* type when unpack() rejects the buffer and the datagram is dropped.
Decoded(d) ==
    IF "raw" \notin DOMAIN d THEN d
    ELSE LET u == unpack(d.raw)
         IN  IF u.rc # 0 THEN BlankPacket(-1)
             ELSE [ptype |-> u.p.ptype, seq |-> u.p.seq[1] * 65536 + u.p.seq[2],
                   total |-> u.p.total[1] * 65536 + u.p.total[2],
                   window |-> u.p.window, checksum |-> u.p.checksum,
                   payload |-> u.p.payload]

\* Faulty variant: the timer is re-armed on every ACK that moves base.
TimerAfterAck_AlwaysArmed(b, n) == TRUE

\* timer_running after base moved to b.
TimerAfterAck(b, n) == b # n

\* retries after an ACK moved base.
RetriesAfterAck(r) == r

\* The Phase 2 receive of datagram d with base b, nextseq n, the timer running
\* or not and retries r: the new base, timer_running and retries, whether
\* base moved, and whether timer_t0 was set anew.
AfterInbound(d, b, n, running, r) ==
    IF AckMovesBase(Decoded(d), b)
    THEN [base |-> NewBase(Decoded(d)),
          timer_running |-> TimerAfterAck(NewBase(Decoded(d)), n),
          rearmed |-> TimerAfterAck(NewBase(Decoded(d)), n),
          retries |-> RetriesAfterAck(r), moved |-> TRUE]
    ELSE [base |-> b, timer_running |-> running, rearmed |-> FALSE,
          retries |-> r, moved |-> FALSE]

Done(code) ==
    /\ pc' = "done"
    /\ exit_code' = code

\* Faulty variant: one transmission more than max_retries.
TriesLeft_OneMore(t, m) == t <= m

\* The test of the handshake loop and of the FIN loop.
TriesLeft(t, m) == t < m

HsSend ==
    /\ pc = "hs_send"
    /\ IF TriesLeft(tries, params.max_retries)
       THEN /\ SenderSends(<<HandshakePacket>>)
            /\ pc' = "hs_wait"
            /\ exit_code' = exit_code
       ELSE /\ Done(2)
            /\ UNCHANGED <<toR, net>>
    /\ UNCHANGED <<params, codec, tries, base, nextseq, retries, timer_running,
                   since_progress, err_seen, toS, rcvVars, now>>

\* A datagram arrives during the handshake wait.
HsRecv ==
    /\ pc = "hs_wait"
    /\ \E d \in Receivable(toS) :
        /\ toS' = Taken(toS)
        /\ IF Decoded(d).ptype = PT_HANDSHAKE_ACK
           THEN /\ tries' = tries + 1
                /\ pc' = "fill"
           ELSE UNCHANGED <<tries, pc>>
    /\ UNCHANGED <<params, codec, base, nextseq, retries, timer_running, exit_code,
                   since_progress, err_seen, toR, net, rcvVars, now>>

\* The handshake wait ends after timeout_ms without a HANDSHAKE_ACK.
HsTimeout ==
    /\ pc = "hs_wait"
    /\ MayExpire
    /\ tries' = tries + 1
    /\ pc' = "hs_send"
    /\ UNCHANGED <<params, codec, base, nextseq, retries, timer_running, exit_code,
                   since_progress, err_seen, netVars, net, rcvVars, now>>

\* Top of the Phase 2 loop and the window-fill loop.
Fill ==
    /\ pc = "fill"
    /\ IF base < total
       THEN LET limit == FillLimit(base, nextseq, params.window, total)
            IN  /\ \E junk \in JunkOctets : SenderSends(FillRun(nextseq, limit, junk))
                /\ nextseq' = limit
                /\ timer_running' = TimerAfterFill(base, nextseq, timer_running, limit)
                /\ pc' = "recv"
                /\ tries' = tries
       ELSE /\ pc' = "fin_send"
            /\ tries' = 0
            /\ UNCHANGED <<nextseq, timer_running, toR, net>>
    /\ UNCHANGED <<params, codec, base, retries, exit_code, since_progress, err_seen, toS, rcvVars, now>>

\* The non-blocking recvfrom() of Phase 2 finds a datagram.
RecvAck ==
    /\ pc = "recv"
    /\ \E d \in Receivable(toS) :
        LET a == AfterInbound(d, base, nextseq, timer_running, retries)
        IN  /\ toS' = Taken(toS)
            /\ base' = a.base
            /\ timer_running' = a.timer_running
            /\ retries' = a.retries
            /\ since_progress' = (IF a.moved THEN 0 ELSE since_progress)
            /\ err_seen' = (err_seen \/ Decoded(d).ptype = PT_ERROR)
    /\ pc' = "timer"
    /\ UNCHANGED <<params, codec, tries, nextseq, exit_code, toR, net, rcvVars, now>>

\* The non-blocking recvfrom() of Phase 2 finds nothing.
RecvNone ==
    /\ pc = "recv"
    /\ MayFindNothing(toS)
    /\ pc' = "timer"
    /\ UNCHANGED <<params, codec, tries, base, nextseq, retries, timer_running, exit_code,
                   since_progress, err_seen, netVars, net, rcvVars, now>>

\* Faulty variant: the transfer fails one expiry early.
RetriesExhausted_Early(r, m) == r >= m

\* The test on retries after an expiry counted.
RetriesExhausted(r, m) == r > m

\* The timeout check finds the timer expired.
Timeout ==
    /\ pc = "timer"
    /\ timer_running
    /\ MayExpire
    /\ retries' = retries + 1
    /\ since_progress' = since_progress + 1
    /\ err_seen' = err_seen
    /\ IF RetriesExhausted(retries + 1, params.max_retries)
       THEN /\ Done(3)
            /\ timer_running' = FALSE
            /\ UNCHANGED <<toR, net>>
       ELSE /\ SenderSends(DataRun(base, nextseq))
            /\ timer_running' = TRUE
            /\ pc' = "fill"
            /\ exit_code' = exit_code
    /\ UNCHANGED <<params, codec, tries, base, nextseq, toS, rcvVars, now>>

\* The timeout check finds the timer stopped or not yet expired.
NoTimeout ==
    /\ pc = "timer"
    /\ IF timer_running THEN ~Quiet ELSE TRUE
    /\ pc' = "fill"
    /\ UNCHANGED <<params, codec, tries, base, nextseq, retries, timer_running, exit_code,
                   since_progress, err_seen, netVars, net, rcvVars, now>>

FinSend ==
    /\ pc = "fin_send"
    /\ IF TriesLeft(tries, params.max_retries)
       THEN /\ SenderSends(<<BlankPacket(PT_FIN)>>)
            /\ pc' = "fin_wait"
            /\ exit_code' = exit_code
       ELSE /\ Done(4)
            /\ UNCHANGED <<toR, net>>
    /\ UNCHANGED <<params, codec, tries, base, nextseq, retries, timer_running,
                   since_progress, err_seen, toS, rcvVars, now>>

FinRecv ==
    /\ pc = "fin_wait"
    /\ \E d \in Receivable(toS) :
        /\ toS' = Taken(toS)
        /\ IF Decoded(d).ptype = PT_FIN_ACK
           THEN /\ tries' = tries + 1
                /\ Done(0)
           ELSE UNCHANGED <<tries, pc, exit_code>>
    /\ UNCHANGED <<params, codec, base, nextseq, retries, timer_running,
                   since_progress, err_seen, toR, net, rcvVars, now>>

FinTimeout ==
    /\ pc = "fin_wait"
    /\ MayExpire
    /\ tries' = tries + 1
    /\ pc' = "fin_send"
    /\ UNCHANGED <<params, codec, base, nextseq, retries, timer_running, exit_code,
                   since_progress, err_seen, netVars, net, rcvVars, now>>

SenderNext ==
    \/ HsSend \/ HsRecv \/ HsTimeout
    \/ Fill \/ RecvAck \/ RecvNone \/ Timeout \/ NoTimeout
    \/ FinSend \/ FinRecv \/ FinTimeout

(* ------------------------------------------------------------------ *)
(* Receiver, clock and channel faults                                  *)
(* ------------------------------------------------------------------ *)
ServerState == [sessions |-> sessions, disk |-> disk]

FopenOutcomes(p) == IF p.ptype = PT_HANDSHAKE THEN BOOLEAN ELSE {TRUE}

\* The receiver's loop handles datagram p of the sender and replies to it.
Serve(p, outcomes) ==
    \E ok \in outcomes :
        LET r == ServerHandle(ServerState, now, SenderKey, p, ok)
        IN  /\ sessions' = r.sessions
            /\ disk' = r.disk
            /\ toR' = Taken(toR)
            /\ toS' = Put(toS, r.out)

\* A datagram reaches the receiver as it was sent.
Receive ==
    /\ \E p \in Receivable(toR) : Serve(p, FopenOutcomes(p))
    /\ UNCHANGED <<params, codec, sndVars, net, now, last_cleanup>>

Corruptible(p) == p.ptype = PT_DATA /\ Len(p.payload) > 0

\* The lossy channel delivers a DATA datagram with its payload corrupted.
ReceiveCorrupted ==
    /\ Lossy
    /\ \E p \in toR :
        /\ Corruptible(p)
        /\ Serve([p EXCEPT !.payload = Flip(p.payload)], {TRUE})
    /\ UNCHANGED <<params, codec, sndVars, net, now, last_cleanup>>

\* recvfrom() finds nothing and the idle sweep is due.
Sweep ==
    /\ now - last_cleanup > SWEEP_MS
    /\ sessions' = cleanup_inactive_sessions(sessions, now)
    /\ last_cleanup' = now
    /\ UNCHANGED <<params, codec, sndVars, netVars, net, disk, now>>

Tick ==
    /\ now < MaxTicks * TickMs
    /\ now' = now + TickMs
    /\ UNCHANGED <<params, codec, sndVars, netVars, net, rcvVars>>

(* ------------------------------------------------------------------ *)
(* Specifications                                                      *)
(* ------------------------------------------------------------------ *)
ParamSets ==
    [filesize : 0..MaxFileSize, chunk : ChunkSizes, window : WindowSizes,
     max_retries : RetryLimits]

\* No buffer is with the codec.
CodecIdle == [step |-> "idle", buf |-> <<>>, rc |-> 0, p |-> [payload |-> <<>>], out |-> <<>>]

InitSender ==
    /\ pc = "hs_send"
    /\ tries = 0
    /\ base = 0
    /\ nextseq = 0
    /\ retries = 0
    /\ timer_running = FALSE
    /\ exit_code = -1
    /\ since_progress = 0
    /\ err_seen = FALSE

InitReceiver ==
    /\ sessions = <<>>
    /\ disk = <<>>
    /\ now = 0
    /\ last_cleanup = 0

\* One sender and the receiver over the lossy channel.
Init ==
    /\ params \in ParamSets
    /\ InitSender
    /\ codec = CodecIdle
    /\ InitReceiver
    /\ net = [mode |-> "lossy"]
    /\ toR = {}
    /\ toS = {}

Next == SenderNext \/ Receive \/ ReceiveCorrupted \/ Sweep \/ Tick

Spec == Init /\ [][Next]_vars

(* ------------------------------------------------------------------ *)
(* The receiver alone, fed any datagram from any peer                   *)
(* ------------------------------------------------------------------ *)
GoodHandshake(n) ==
    [BlankPacket(PT_HANDSHAKE) EXCEPT !.payload = Meta(FNAME, n, n, 1, 1), !.total = n]

\* Metadata with two fields only.
BadHandshake ==
    [BlankPacket(PT_HANDSHAKE) EXCEPT !.payload = FNAME \o <<PIPE, ASCII_ZERO + 1>>]

GoodData(seq) ==
    OnWire([BlankPacket(PT_DATA) EXCEPT !.seq = seq, !.payload = <<seq + 1>>])

\* The payload changed in transit, the checksum field as sent.
BadData(seq) == [GoodData(seq) EXCEPT !.payload = Flip(GoodData(seq).payload)]

DataDatagrams == {GoodData(q) : q \in 0..MaxSeq} \cup {BadData(q) : q \in 0..MaxSeq}

AnyDatagrams ==
    {GoodHandshake(n) : n \in 1..2} \cup {BadHandshake} \cup DataDatagrams
        \cup {BlankPacket(PT_FIN), BlankPacket(PT_ACK)}

\* The receiver's loop handles datagram p of peer key; the reply leaves the model.
ReceiveAny ==
    /\ \E key \in Peers : \E p \in AnyDatagrams : \E ok \in FopenOutcomes(p) :
        LET r == ServerHandle(ServerState, now, key, p, ok)
        IN  /\ sessions' = r.sessions
            /\ disk' = r.disk
    /\ UNCHANGED <<params, codec, sndVars, netVars, net, now, last_cleanup>>

InitR ==
    /\ params = [filesize |-> 0, chunk |-> 1, window |-> 1, max_retries |-> 1]
    /\ InitSender
    /\ codec = CodecIdle
    /\ InitReceiver
    /\ net = [mode |-> "lossy"]
    /\ toR = {}
    /\ toS = {}

NextR == ReceiveAny \/ Sweep \/ Tick

SpecR == InitR /\ [][NextR]_vars

\* The receiver's loop keeps iterating, each iteration handling a datagram or,
\* when recvfrom() finds none, looking whether a sweep is due; the clock
\* advances.
SpecRFair == SpecR /\ WF_vars(ReceiveAny \/ Sweep) /\ WF_vars(Tick)

(* ------------------------------------------------------------------ *)
(* One sender and the receiver over the fifo channel with one fault:    *)
(* the first transmission of DATA net.seq is lost or corrupted          *)
(* ------------------------------------------------------------------ *)
\* The receiver's loop gets the next datagram of the queue; the disk works.
Deliver ==
    /\ ~Lossy
    /\ \E p \in Receivable(toR) : Serve(p, {TRUE})
    /\ UNCHANGED <<params, codec, sndVars, net, now, last_cleanup>>

InitFault ==
    /\ params \in {q \in ParamSets : q.filesize > 0}
    /\ InitSender
    /\ codec = CodecIdle
    /\ InitReceiver
    /\ net \in [mode : {"fifo"}, seq : 0..(total - 1), kind : {"lose", "corrupt"},
                done : {FALSE}]
    /\ toR = <<>>
    /\ toS = <<>>

\* Every handshake and FIN is answered here, so their waits never run out.
SenderNextFault ==
    \/ HsSend \/ HsRecv
    \/ Fill \/ RecvAck \/ RecvNone \/ Timeout \/ NoTimeout
    \/ FinSend \/ FinRecv

NextFault == SenderNextFault \/ Deliver

\* Both processes keep running: each takes its step when it has one.
SpecFault ==
    InitFault /\ [][NextFault]_vars /\ WF_vars(SenderNextFault) /\ WF_vars(Deliver)

(* ------------------------------------------------------------------ *)
(* The receiver fed buffers as well: recvfrom(), unpack(), dispatch     *)
(* ------------------------------------------------------------------ *)
\* DATA datagrams of 20 octets (length 0, checksum field 0, seq 0..MaxSeq),
\* and a HANDSHAKE, the first DATA packet of a file and a FIN as pack() lays
\* them out.
RawDatagrams ==
    {<<MAGIC0, MAGIC1, VERSION, PT_DATA, 0, 0, 0, q, 0, 0, 0, 0, 0, 0, 0, 0, 0, 0, 0, 0>> :
        q \in 0..MaxSeq}
    \cup {pack(Struct(p)) : p \in {GoodHandshake(2), GoodData(0), BlankPacket(PT_FIN)}}

\* The receiver's loop gets buffer buf from peer key: what unpack() makes of
\* it is dispatched, and a buffer it rejects is dropped.
ReceiveBuffer ==
    /\ \E key \in Peers : \E buf \in RawDatagrams :
        LET r == ServerHandle(ServerState, now, key, Decoded([raw |-> buf]), TRUE)
        IN  /\ sessions' = r.sessions
            /\ disk' = r.disk
    /\ UNCHANGED <<params, codec, sndVars, netVars, net, now, last_cleanup>>

NextRaw == ReceiveBuffer \/ Sweep \/ Tick

SpecRaw == InitR /\ [][NextRaw]_vars

(* ------------------------------------------------------------------ *)
(* The sender alone: its socket may hand it any datagram at any time,   *)
(* from the receiver or from anyone else                                *)
(* ------------------------------------------------------------------ *)
\* Packets of every type the sender looks for or ignores, ACKs of every seq
\* up to one beyond the largest total, and buffers: an ACK as pack() lays it
\* out, the same with a wrong magic octet, and one shorter than a header.
SenderInputs ==
    {[BlankPacket(PT_ACK) EXCEPT !.seq = q] : q \in 0..MaxFileSize}
        \cup {BlankPacket(t) : t \in {PT_HANDSHAKE_ACK, PT_FIN_ACK, PT_ERROR, PT_DATA}}
        \cup {[raw |-> pack(Struct(BlankPacket(PT_ACK)))],
              [raw |-> <<MAGIC0 + 1>> \o Tail(pack(Struct(BlankPacket(PT_ACK))))],
              [raw |-> <<MAGIC0, MAGIC1, VERSION, PT_ACK>>]}

InitS ==
    /\ params \in ParamSets
    /\ InitSender
    /\ codec = CodecIdle
    /\ InitReceiver
    /\ net = [mode |-> "lossy"]
    /\ toR = {}
    /\ toS = SenderInputs

SpecS == InitS /\ [][SenderNext]_vars

(* ------------------------------------------------------------------ *)
(* The codec alone: a received buffer goes through unpack() and, when   *)
(* it is accepted, the Packet goes through pack()                       *)
(* ------------------------------------------------------------------ *)
\* Buffers as recvfrom() may hand them over: every packet type and an unknown
\* one, wrong magic and version octets, small and large field values, a
\* declared length below, at and beyond the octets that follow the header,
\* checksum fields that are zero, wrong and right, and buffers cut short.
WireInputs ==
    LET Heads  == {<<MAGIC0, MAGIC1, VERSION, t>> : t \in 0..(PT_ERROR + 1)}
                  \cup {<<MAGIC0 + 1, MAGIC1, VERSION, PT_DATA>>,
                        <<MAGIC0, MAGIC1 + 1, VERSION, PT_ACK>>,
                        <<MAGIC0, MAGIC1, VERSION + 1, PT_DATA>>}
        Words  == {<<0, 0, 0, 0>>, <<0, 0, 0, 1>>, <<1, 2, 3, 4>>, <<255, 255, 255, 255>>}
        Halves == {<<0, 0>>, <<0, 1>>, <<0, 2>>, <<1, 0>>}
        Tails  == {FileData(n) : n \in 0..3}
        Sums   == {<<0, 0, 0, 0>>, <<0, 0, 0, 1>>}
                  \cup {U32Bytes(ru_crc32(d)) : d \in Tails \ {<<>>}}
        Whole  == {h \o sq \o <<0, 0, 0, 2>> \o ln \o wn \o ck \o d :
                     h \in Heads, sq \in Words, ln \in Halves,
                     wn \in {<<0, 0>>, <<1, 0>>}, ck \in Sums, d \in Tails}
    IN  Whole \cup {SubSeq(x, 1, k) : x \in Whole, k \in {0, 4, HEADER_SIZE - 1}}

\* unpack() of the buffer.
Unpack ==
    /\ codec.step = "wire"
    /\ LET r == unpack(codec.buf)
       IN  codec' = [codec EXCEPT !.step = IF r.rc = 0 THEN "decoded" ELSE "failed",
                                  !.rc = r.rc,
                                  !.p = IF r.rc = 0 THEN r.p ELSE @]
    /\ UNCHANGED <<params, sndVars, netVars, net, rcvVars, now>>

\* pack() of the Packet unpack() filled in.
Pack ==
    /\ codec.step = "decoded"
    /\ codec' = [codec EXCEPT !.step = "encoded", !.out = pack(codec.p)]
    /\ UNCHANGED <<params, sndVars, netVars, net, rcvVars, now>>

InitCodec ==
    /\ params \in {q \in ParamSets : q.filesize = 0 /\ q.chunk = 1 /\ q.window = 1}
    /\ InitSender
    /\ InitReceiver
    /\ net = [mode |-> "lossy"]
    /\ toR = {}
    /\ toS = {}
    /\ codec \in {[CodecIdle EXCEPT !.step = "wire", !.buf = x] : x \in WireInputs}

NextCodec == Unpack \/ Pack

SpecCodec == InitCodec /\ [][NextCodec]_vars

(* ------------------------------------------------------------------ *)
(* The single-loss scenario: four packets, a window of four, the first  *)
(* transmission of DATA 1 lost; the channel logs the seq of every DATA  *)
(* packet the sender transmits and of every ACK the receiver sends      *)
(* ------------------------------------------------------------------ *)
LossParams ==
    {q \in [filesize : LossSizes, chunk : ChunkSizes, window : {4},
            max_retries : {1, 2}] : TotalPackets(q.filesize, q.chunk) = 4}

\* The receiver's loop gets the next datagram of the queue; the ACKs it sends
\* go into the log.
DeliverLogged ==
    /\ ~Lossy
    /\ \E p \in Receivable(toR) : Serve(p, {TRUE})
    /\ net' = [net EXCEPT
                !.acks = @ \o SeqsOf(SubSeq(toS', Len(toS) + 1, Len(toS')), PT_ACK)]
    /\ UNCHANGED <<params, codec, sndVars, now, last_cleanup>>

InitLoss ==
    /\ params \in LossParams
    /\ InitSender
    /\ codec = CodecIdle
    /\ InitReceiver
    /\ net = [mode |-> "fifo", seq |-> 1, kind |-> "lose", done |-> FALSE,
              sent |-> <<>>, acks |-> <<>>]
    /\ toR = <<>>
    /\ toS = <<>>

NextLoss == SenderNextFault \/ DeliverLogged

SpecLoss ==
    InitLoss /\ [][NextLoss]_vars /\ WF_vars(SenderNextFault) /\ WF_vars(DeliverLogged)

(* ------------------------------------------------------------------ *)
(* One sender against a receiver whose table is full: a hundred other   *)
(* peers have handshaken and stay active, so none is evicted            *)
(* ------------------------------------------------------------------ *)
\* The peer_key of the i-th of the other peers.
CrowdKey(i) == ToString(i)

\* The table and the directory after the handshakes of peers 1..n at time 0.
CrowdSessions(n) ==
    [i \in 1..n |-> NewSession(split(GoodHandshake(1).payload, PIPE), CrowdKey(i), 0)]

CrowdDisk(n) ==
    [path \in {CrowdSessions(n)[i].path : i \in 1..n} |-> <<>>]

\* What the first of the other peers goes on sending.
CrowdDatagrams == {GoodHandshake(1)} \cup {GoodData(q) : q \in 0..MaxSeq}

CrowdReceive ==
    /\ \E p \in CrowdDatagrams :
        LET r == ServerHandle(ServerState, now, CrowdKey(1), p, TRUE)
        IN  /\ sessions' = r.sessions
            /\ disk' = r.disk
    /\ UNCHANGED <<params, codec, sndVars, netVars, net, now, last_cleanup>>

InitCap ==
    /\ params \in [filesize : 0..MaxFileSize, chunk : ChunkSizes,
                    window : WindowSizes, max_retries : 0..MaxRetries]
    /\ InitSender
    /\ codec = CodecIdle
    /\ sessions = CrowdSessions(MAX_SESSIONS)
    /\ disk = CrowdDisk(MAX_SESSIONS)
    /\ now = 0
    /\ last_cleanup = 0
    /\ net = [mode |-> "lossy"]
    /\ toR = {}
    /\ toS = {}

\* No reply ever reaches this sender, so it stays in its handshake loop.
SenderNextCap == HsSend \/ HsTimeout

NextCap == SenderNextCap \/ Receive \/ CrowdReceive

SpecCap == InitCap /\ [][NextCap]_vars /\ WF_vars(SenderNextCap)

(* ------------------------------------------------------------------ *)
(* One sender and the receiver over the lossy channel, for every         *)
(* parameter choice parse_args accepts (within the bounds), both        *)
(* programs running on and the clock of the sender advancing            *)
(* ------------------------------------------------------------------ *)
\* --window is read with atoi into a uint16_t: 0 is accepted.
AcceptedWindows == {0} \cup WindowSizes

\* --max-retries is read with atoi: 0 is accepted.
AcceptedRetries == 0..MaxRetries

InitLive ==
    /\ params \in [filesize : 0..MaxFileSize, chunk : ChunkSizes,
                    window : AcceptedWindows, max_retries : AcceptedRetries]
    /\ InitSender
    /\ codec = CodecIdle
    /\ InitReceiver
    /\ net = [mode |-> "lossy"]
    /\ toR = {}
    /\ toS = {}

NextLive == SenderNext \/ Receive \/ ReceiveCorrupted

\* The sender's loops keep iterating, and a running timer that is checked
\* again and again is found expired at some check.
SpecLive ==
    InitLive /\ [][NextLive]_vars /\ WF_vars(SenderNext) /\ SF_vars(Timeout)

(* ------------------------------------------------------------------ *)
(* Properties                                                          *)
(* ------------------------------------------------------------------ *)
InPhase2 == pc \in {"fill", "recv", "timer"}

\* Some file the receiver wrote for the sender holds exactly the source file.
FileDelivered == \E path \in DOMAIN disk : path[3] = SenderKey /\ disk[path] = data

\* C1: whenever the sender has ended with exit code 0, some sink the receiver
\* wrote for it is byte-identical to the source file.
C1_ExitZeroMeansDelivered == exit_code = 0 => FileDelivered

\* C2: the sink of every session holds exactly chunks[0..expected) of the
\* sender: the first expected*chunk octets of the source file, short-tailed at
\* the file's end.
C2_SinkIsSourcePrefix ==
    \A i \in 1..Len(sessions) :
        /\ sessions[i].expected <= total
        /\ disk[sessions[i].path] = Concat(sessions[i].expected, data, params.chunk)
        /\ disk[sessions[i].path] =
              SubSeq(data, 1, Min(sessions[i].expected * params.chunk, params.filesize))

\* A session that committed two packets of a two-packet file.
C2_Witness ==
    \E i \in 1..Len(sessions) :
        sessions[i].expected = 2 /\ total = 2 /\ Len(disk[sessions[i].path]) = 2

\* C3: every ACK the receiver sends is cumulative: an ACK with seq N is sent
\* only by a session that has committed more than N packets.
C3_EveryAckIsCumulative ==
    \A key \in Peers : \A p \in AnyDatagrams :
        LET r == ServerHandle(ServerState, now, key, p, TRUE)
        IN  \A k \in 1..Len(r.out) :
                r.out[k].ptype = PT_ACK =>
                    /\ find_session(r.sessions, key) # 0
                    /\ r.sessions[find_session(r.sessions, key)].received > r.out[k].seq

\* C4: with the first transmission of one DATA packet lost or corrupted and
\* every other datagram delivered, the transfer eventually ends with exit code
\* 0 and a sink identical to the source.
C4_SingleFaultRecovers == <>(exit_code = 0 /\ FileDelivered)

\* C5: retry_count is the number of timer expiries since base last increased
\* (every increase of base resets it to 0).
C5_RetriesCountSinceProgress == retries = since_progress

\* C6: in Phase 2, base <= next_seq <= min(base + window, total).
C6_WindowInvariant ==
    InPhase2 => /\ base <= nextseq
                /\ nextseq <= Min(base + params.window, total)

\* An ACK moved base and the window was filled again up to its limit.
C6_Witness ==
    /\ pc = "recv"
    /\ base > 0
    /\ base < nextseq
    /\ nextseq = Min(base + params.window, total)

\* C7: at every boundary of the Phase 2 loop the timer is running exactly
\* when base < next_seq.
C7_TimerIffOutstanding == InPhase2 => (timer_running <=> base < nextseq)

\* An ACK for everything outstanding stopped the timer in mid-transfer.
C7_Witness ==
    /\ pc = "timer"
    /\ ~timer_running
    /\ base = nextseq
    /\ base > 0
    /\ base < total

\* A well-formed HANDSHAKE ends the peer's session and starts a new one.
StartsSession(p) == p.ptype = PT_HANDSHAKE /\ Len(split(p.payload, PIPE)) >= 5

\* C8: in every session expected = received, and no datagram the receiver
\* handles lowers either counter of a session that lives on.
C8_ExpectedIsReceivedAndGrows ==
    /\ \A i \in 1..Len(sessions) : sessions[i].expected = sessions[i].received
    /\ \A key \in Peers : \A p \in AnyDatagrams : \A ok \in BOOLEAN :
        LET r == ServerHandle(ServerState, now, key, p, ok)
        IN  \A i \in 1..Len(sessions) : \A j \in 1..Len(r.sessions) :
                (sessions[i].key = r.sessions[j].key
                    /\ ~(key = sessions[i].key /\ StartsSession(p)))
                => /\ r.sessions[j].expected >= sessions[i].expected
                   /\ r.sessions[j].received >= sessions[i].received
                   /\ r.sessions[j].expected = r.sessions[j].received
    /\ \A j \in 1..Len(cleanup_inactive_sessions(sessions, now)) :
        \E i \in 1..Len(sessions) : cleanup_inactive_sessions(sessions, now)[j] = sessions[i]

\* Two sessions, one of which committed two packets.
C8_Witness ==
    /\ Len(sessions) = 2
    /\ \E i \in 1..Len(sessions) : sessions[i].received = 2

\* C9: in every session expected <= total, the total of its handshake.
C9_ExpectedWithinTotal ==
    \A i \in 1..Len(sessions) : sessions[i].expected <= sessions[i].total

\* What C10 compares: the files, and each session's peer and counters.
SinkView(r) ==
    [disk |-> r.disk,
     counters |-> [i \in 1..Len(r.sessions) |->
                    <<r.sessions[i].key, r.sessions[i].expected, r.sessions[i].received>>]]

Again(r, key, d) ==
    ServerHandle([sessions |-> r.sessions, disk |-> r.disk], now, key, d, TRUE)

\* C10: delivering a DATA packet two or three times in a row leaves the sinks,
\* expected and received as delivering it once does.
C10_DataDeliveryIdempotent ==
    \A key \in Peers : \A d \in DataDatagrams :
        LET once == Again(ServerState, key, d)
            twice == Again(once, key, d)
            thrice == Again(twice, key, d)
        IN  /\ SinkView(twice) = SinkView(once)
            /\ SinkView(thrice) = SinkView(once)

\* A session that committed a packet and whose next in-order packet is one of
\* the datagrams delivered: its first delivery is written, its second is not.
C10_Witness ==
    \E i \in 1..Len(sessions) :
        /\ sessions[i].expected >= 1
        /\ sessions[i].expected <= MaxSeq
        /\ Len(disk[sessions[i].path]) >= 1

\* The receiver's handling of datagram p of peer key in the current state.
Handled(key, p, ok) == ServerHandle(ServerState, now, key, p, ok)

OnePerPeer(ss) == \A i, j \in 1..Len(ss) : ss[i].key = ss[j].key => i = j

\* Table after is table before with the peer's session dropped and, when
\* fresh is TRUE, a session at 0 appended for the peer.
Replaced(before, after, key, fresh) ==
    LET rest == SelectSeq(before, LAMBDA s : s.key # key)
    IN  IF fresh
        THEN /\ Len(after) = Len(rest) + 1
             /\ SubSeq(after, 1, Len(rest)) = rest
             /\ after[Len(after)].key = key
             /\ after[Len(after)].expected = 0
             /\ after[Len(after)].received = 0
        ELSE after = rest

\* C11 as stated: at most one session per peer_key, and a well-formed
\* HANDSHAKE from a peer that has a session discards that session and in the
\* same step creates a new one for the peer with expected = received = 0.
C11_RehandshakeReplacesSession ==
    /\ OnePerPeer(sessions)
    /\ \A key \in Peers : \A p \in AnyDatagrams : \A ok \in FopenOutcomes(p) :
        (StartsSession(p) /\ find_session(sessions, key) # 0)
        => Replaced(sessions, Handled(key, p, ok).sessions, key, TRUE)

\* C11 amended: at most one session per peer_key; a well-formed HANDSHAKE from
\* a peer that has a session discards that session and, when the new sink
\* file can be opened, in the same step creates a new session at
\* expected = received = 0; when it cannot, the peer is left without a session.
C11_RehandshakeReplacesIfSinkOpens ==
    /\ OnePerPeer(sessions)
    /\ \A key \in Peers : \A p \in AnyDatagrams : \A ok \in FopenOutcomes(p) :
        (StartsSession(p) /\ find_session(sessions, key) # 0)
        => /\ Replaced(sessions, Handled(key, p, ok).sessions, key, ok)
           /\ OnePerPeer(Handled(key, p, ok).sessions)

\* A peer's session is at 0 again while the file of its earlier session, with
\* the octets that session committed, is still in the directory; no idle
\* sweep has run.
C11_Witness ==
    /\ last_cleanup = 0
    /\ \E i \in 1..Len(sessions) : \E path \in DOMAIN disk :
        /\ sessions[i].expected = 0
        /\ path[3] = sessions[i].key
        /\ path # sessions[i].path
        /\ disk[path] # <<>>

\* C12: a well-formed HANDSHAKE whose sink opens gets a path no earlier session
\* of this receiver had, and leaves every earlier file as it was.
C12_SinkPathsDistinct ==
    \A key \in Peers : \A p \in AnyDatagrams :
        StartsSession(p) =>
            LET r == Handled(key, p, TRUE)
            IN  /\ r.sessions[Len(r.sessions)].path \notin DOMAIN disk
                /\ \A path \in DOMAIN disk : r.disk[path] = disk[path]
\* A well-formed HANDSHAKE of a peer without a session finds the table full.
OverCapacity(key, p) ==
    /\ StartsSession(p)
    /\ find_session(sessions, key) = 0
    /\ Len(sessions) >= MAX_SESSIONS

\* C13: the table never holds more than 100 sessions; a HANDSHAKE over
\* capacity is dropped without a reply and without touching any session or
\* file; no reply ever reaches that sender, which sends HANDSHAKE max_retries
\* times and ends with exit code 2.
C13_OverCapacityDropped ==
    /\ [](Len(sessions) <= MAX_SESSIONS)
    /\ [](\A key \in Peers : \A p \in AnyDatagrams : \A ok \in BOOLEAN :
            OverCapacity(key, p) =>
                /\ Handled(key, p, ok).out = <<>>
                /\ Handled(key, p, ok).sessions = sessions
                /\ Handled(key, p, ok).disk = disk)
    /\ [](toS = {})
    /\ [](pc = "hs_wait" => tries < params.max_retries)
    /\ [](pc = "done" => exit_code = 2 /\ tries = params.max_retries)
    /\ <>(exit_code = 2)

\* The sender gave up after its second HANDSHAKE, the table still full.
C13_Witness ==
    /\ exit_code = 2
    /\ tries = 2
    /\ HandshakePacket \in toR
    /\ Len(sessions) = MAX_SESSIONS

\* C14 as stated: a HANDSHAKE over capacity is answered with an ERROR packet.
C14_OverCapacityError ==
    \A key \in Peers : \A p \in AnyDatagrams :
        OverCapacity(key, p) =>
            /\ Len(Handled(key, p, TRUE).out) = 1
            /\ Handled(key, p, TRUE).out[1].ptype = PT_ERROR

\* C14 amended: a HANDSHAKE over capacity is rejected without any datagram
\* sent back, and no session is created for the peer.
C14_OverCapacityNoReply ==
    \A key \in Peers : \A p \in AnyDatagrams :
        OverCapacity(key, p) =>
            /\ Len(Handled(key, p, TRUE).out) = 0
            /\ find_session(Handled(key, p, TRUE).sessions, key) = 0

\* A wait of the sender ran out with its HANDSHAKE sent to the full table and
\* nothing sent back.
C14_Witness ==
    /\ pc = "hs_send"
    /\ tries = 1
    /\ HandshakePacket \in toR
    /\ toS = {}
    /\ Len(sessions) = MAX_SESSIONS
InHandshake == pc \in {"hs_send", "hs_wait"}

InTeardown == pc \in {"fin_send", "fin_wait"}

\* C15: in the handshake and in the teardown the sender transmits at most
\* max_retries times, each followed by one wait; without an answer it ends with
\* exit code 2 (resp. 4) after exactly max_retries transmissions; the phase
\* ends successfully only on a HANDSHAKE_ACK (resp. FIN_ACK) received in a
\* wait; and each of the two phases ends.
C15_RetryDiscipline ==
    /\ [](pc \in {"hs_wait", "fin_wait"} => tries < params.max_retries)
    /\ [](InHandshake \/ InTeardown => tries <= params.max_retries)
    /\ [](exit_code \in {2, 4} => tries = params.max_retries)
    /\ [][(InHandshake /\ ~InHandshake')
            => \/ pc' = "done" /\ exit_code' = 2 /\ pc = "hs_send"
               \/ /\ pc' = "fill" /\ pc = "hs_wait"
                  /\ \E p \in toS : p.ptype = PT_HANDSHAKE_ACK]_vars
    /\ [][(InTeardown /\ ~InTeardown')
            => \/ pc' = "done" /\ exit_code' = 4 /\ pc = "fin_send"
               \/ /\ pc' = "done" /\ exit_code' = 0 /\ pc = "fin_wait"
                  /\ \E p \in toS : p.ptype = PT_FIN_ACK]_vars
    /\ [][(pc = "hs_wait" /\ pc' = "hs_send") \/ (pc = "fin_wait" /\ pc' = "fin_send")
            => tries' = tries + 1]_vars
    /\ (InHandshake ~> ~InHandshake)
    /\ (InTeardown ~> pc = "done")

\* The sender gave up its teardown after max_retries = 2 FINs.
C15_Witness ==
    /\ exit_code = 4
    /\ tries = 2
    /\ params.max_retries = 2

\* C19: for every accepted choice of parameters and every behaviour of the
\* channel the sender eventually ends, with exit code 0, 2, 3 or 4.
C19_SenderTerminates == <>(pc = "done" /\ exit_code \in {0, 2, 3, 4})
\* A step in which the retransmit timer is found expired.
Expiry == pc = "timer" /\ timer_running /\ retries' = retries + 1

\* C16: in Phase 2 the sender ends with exit code 3 exactly in a step in which
\* a timer expiry raises retries above max_retries; a sender with DATA
\* outstanding sees base move or ends with exit code 3; and exit code 0 is
\* reported only with every packet acknowledged.
C16_TransferFailedOnExhaustion ==
    /\ [][(exit_code' = 3 /\ exit_code # 3)
            <=> (Expiry /\ retries' > params.max_retries)]_vars
    /\ [](InPhase2 => retries <= params.max_retries)
    /\ [](exit_code = 3 => retries = params.max_retries + 1)
    /\ [](exit_code = 0 => base >= total)
    /\ \A b \in 0..MaxFileSize :
        (InPhase2 /\ base = b /\ base < nextseq) ~> (base > b \/ exit_code = 3)

\* The receiver has no session for the sender and answered its DATA with
\* ERROR; the sender received that, got no ACK for any packet, and ended with
\* exit code 3.
C16_Witness ==
    /\ exit_code = 3
    /\ base = 0
    /\ err_seen
    /\ sessions = <<>>
    /\ ErrorPacket(ERR_NO_SESSION) \in toS

\* C17: once an ERROR was received in Phase 2 the sender sends no DATA any
\* more, neither new nor retransmitted, and does not end with exit code 0.
C17_ErrorAbortsTransfer ==
    [][err_seen => /\ ~(Timeout /\ pc' = "fill")
                   /\ ~(Fill /\ nextseq' > nextseq)
                   /\ exit_code' # 0]_vars
\* C18: every FIN is answered with exactly one FIN_ACK, with or without a
\* session of the peer; a session of the peer is removed from the table in
\* the same step, the other sessions and all files stay as they are.
C18_FinAlwaysAcked ==
    \A key \in Peers :
        LET r == Handled(key, BlankPacket(PT_FIN), TRUE)
        IN  /\ r.out = <<BlankPacket(PT_FIN_ACK)>>
            /\ r.sessions = SelectSeq(sessions, LAMBDA s : s.key # key)
            /\ r.disk = disk

\* A peer whose session ended after it committed a packet has no session, and
\* the other peer has one; no idle sweep has run.
C18_Witness ==
    /\ last_cleanup = 0
    /\ Len(sessions) = 1
    /\ \E path \in DOMAIN disk :
        /\ disk[path] # <<>>
        /\ path[3] # sessions[1].key
\* The peer has a session whose last_activity is more than 30 s ago.
HasIdleSession(key) ==
    \E i \in 1..Len(sessions) : sessions[i].key = key /\ Idle(sessions[i], now)

\* C20: a session that has been idle for more than 30 s is eventually removed
\* from the table (unless its peer sends again), whatever else the receiver
\* is handling.
C20_IdleSessionEvicted ==
    \A key \in Peers : HasIdleSession(key) ~> ~HasIdleSession(key)
\* The sessions of the peers other than key.
OthersOf(ss, key) == SelectSeq(ss, LAMBDA s : s.key # key)

\* C21: a datagram of one peer, of whatever kind, leaves the sessions of every
\* other peer (counters, sink path, position among them) and every file of
\* every other peer as they are, and creates no file for another peer.
C21_PeersIndependent ==
    \A key \in Peers : \A p \in AnyDatagrams : \A ok \in FopenOutcomes(p) :
        LET r == Handled(key, p, ok)
        IN  /\ OthersOf(r.sessions, key) = OthersOf(sessions, key)
            /\ \A path \in DOMAIN r.disk :
                path[3] # key => path \in DOMAIN disk /\ r.disk[path] = disk[path]
            /\ \A path \in DOMAIN disk : path \in DOMAIN r.disk

\* Two peers are transferring at the same time: each has a session that
\* committed one packet into a file of its own.
C21_Witness ==
    /\ Len(sessions) = 2
    /\ sessions[1].key # sessions[2].key
    /\ \A i \in 1..2 : sessions[i].expected = 1 /\ Len(disk[sessions[i].path]) = 1

\* C22: with a zero-byte source file total is 0, the sender never enters the
\* receive and timer steps of Phase 2 and never sends a DATA packet, and every
\* session and every file the receiver has for it stays at
\* expected = received = 0 and empty.
C22_ZeroByteFile ==
    params.filesize = 0 =>
        /\ total = 0
        /\ pc \in {"hs_send", "hs_wait", "fill", "fin_send", "fin_wait", "done"}
        /\ base = 0 /\ nextseq = 0
        /\ \A p \in toR : p.ptype # PT_DATA
        /\ \A i \in 1..Len(sessions) :
            /\ sessions[i].total = 0
            /\ sessions[i].expected = 0
            /\ sessions[i].received = 0
        /\ \A path \in DOMAIN disk : disk[path] = <<>>

\* The zero-byte transfer ended with exit code 0: the session is gone and its
\* empty file is in the directory.
C22_Witness ==
    /\ params.filesize = 0
    /\ exit_code = 0
    /\ sessions = <<>>
    /\ DOMAIN disk # {}
IsPrefix(a, b) == Len(a) <= Len(b) /\ a = SubSeq(b, 1, Len(a))

\* What the single-loss transfer puts on the channel: DATA 0..3 and, after the
\* expiry, 1..3 again; ACK 0 for DATA 0, n further ACK 0, then ACK 1, 2, 3.
SingleLossSent == <<0, 1, 2, 3, 1, 2, 3>>

SingleLossAcks(n) == <<0>> \o [i \in 1..n |-> 0] \o <<1, 2, 3>>

\* The log so far is the beginning of that run.
SingleLossSoFar(n) ==
    IsPrefix(net.sent, SingleLossSent) /\ IsPrefix(net.acks, SingleLossAcks(n))

\* The run is complete and the sender has ended with the file delivered.
SingleLossDone(n) ==
    /\ pc = "done" /\ exit_code = 0 /\ FileDelivered
    /\ net.sent = SingleLossSent /\ net.acks = SingleLossAcks(n)

\* C23 as stated: the sender transmits DATA 0, 1, 2, 3 and, after the expiry,
\* 1, 2, 3 again; the receiver ACKs 0, re-ACKs 0 exactly once, then ACKs
\* 1, 2, 3; the sink ends identical to the source.
C23_SingleLossOneReAck == [](SingleLossSoFar(1)) /\ <>SingleLossDone(1)

\* C23, amended: as above, but the receiver re-ACKs 0 twice, once for each of
\* DATA 2 and DATA 3, which reach it out of order.
C23_SingleLossTwoReAcks == [](SingleLossSoFar(2)) /\ <>SingleLossDone(2)

\* The transfer with the lost DATA 1 has ended: seven DATA packets were
\* transmitted and the file arrived whole.
C23_Witness ==
    /\ "sent" \in DOMAIN net
    /\ net.done
    /\ Len(net.sent) = 7
    /\ pc = "done"
    /\ FileDelivered
\* C24 as stated: whatever buffer unpack() accepts, pack() of the Packet it
\* filled in gives the buffer back octet for octet.
C24_RoundTripEveryAccepted == codec.step = "encoded" => codec.out = codec.buf

\* C24, amended: pack() gives the accepted buffer back octet for octet when
\* the buffer ends with its payload (no octet beyond 20 + length) and is not
\* a DATA datagram with a payload and a zero checksum field.
C24_RoundTripExact ==
    codec.step = "encoded" =>
        LET x == codec.buf
            length == x[13] * 256 + x[14]
        IN  (/\ Len(x) = 20 + length
             /\ ~(x[4] = 2 /\ length > 0 /\ SubSeq(x, 17, 20) = <<0, 0, 0, 0>>))
            => codec.out = x

\* A DATA datagram with a payload and a non-zero checksum field came back from
\* the round trip as it was.
C24_Witness ==
    /\ codec.step = "encoded"
    /\ codec.p.ptype = PT_DATA
    /\ codec.p.length = 2
    /\ codec.p.checksum # ZERO32
    /\ Len(codec.buf) = HEADER_SIZE + 2
    /\ codec.out = codec.buf

\* C25: unpack() answers a buffer of fewer than 20 octets with -1 whatever it
\* holds; one of 20 or more whose first octets are not 'R', 'U', 1 with -2;
\* one with those octets whose length field reaches beyond the buffer with
\* -3; every other buffer with 0 and a Packet whose payload is the length
\* octets after the header, whatever follows them and whatever the checksum
\* field holds, the header fields being the buffer's.
C25_UnpackClassifies ==
    codec.step \in {"decoded", "failed"} =>
        LET x == codec.buf
            n == Len(x)
            length == x[13] * 256 + x[14]
        IN  IF n < 20 THEN codec.step = "failed" /\ codec.rc = -1
            ELSE IF x[1] # 82 \/ x[2] # 85 \/ x[3] # 1
                 THEN codec.step = "failed" /\ codec.rc = -2
            ELSE IF 20 + length > n THEN codec.step = "failed" /\ codec.rc = -3
            ELSE /\ codec.step = "decoded" /\ codec.rc = 0
                 /\ codec.p.payload = [i \in 1..length |-> x[20 + i]]
                 /\ codec.p.length = length
                 /\ codec.p.ptype = x[4]
                 /\ codec.p.checksum = <<x[17] * 256 + x[18], x[19] * 256 + x[20]>>

\* A DATA datagram with a wrong checksum field and an octet after its payload
\* was accepted.
C25_Witness ==
    /\ codec.step = "decoded"
    /\ codec.p.ptype = PT_DATA
    /\ codec.p.length = 1
    /\ Len(codec.buf) > HEADER_SIZE + 1
    /\ codec.p.checksum = <<0, 1>>

C27_BaseWithinExpected ==
    \A i \in 1..Len(sessions) :
        sessions[i].key = SenderKey => base <= sessions[i].expected
\* C28: a DATA packet with a valid checksum from a peer with a session is
\* appended to the session's sink, expected and received going up by one, if
\* and only if its seq is expected; otherwise the sink and both counters stay;
\* either way one ACK is sent whose seq is max(expected, 1) - 1 with expected
\* as it is after the step. The sink of a session holds the payloads of seq
\* 0 .. expected - 1 in order and nothing else.
C28_ValidDataStep ==
    /\ \A key \in Peers : \A d \in DataDatagrams :
        LET i == find_session(sessions, key)
            r == Handled(key, d, TRUE)
            e == r.sessions[i].expected
        IN  (i # 0 /\ ru_crc32(d.payload) = d.checksum) =>
            /\ Len(r.sessions) = Len(sessions)
            /\ IF d.seq = sessions[i].expected
               THEN /\ r.disk = [disk EXCEPT ![sessions[i].path] = @ \o d.payload]
                    /\ e = sessions[i].expected + 1
                    /\ r.sessions[i].received = sessions[i].received + 1
               ELSE /\ r.disk = disk
                    /\ e = sessions[i].expected
                    /\ r.sessions[i].received = sessions[i].received
            /\ Len(r.out) = 1
            /\ r.out[1].ptype = PT_ACK
            /\ r.out[1].seq = (IF e > 1 THEN e ELSE 1) - 1
    /\ \A i \in 1..Len(sessions) :
        disk[sessions[i].path] = [q \in 1..sessions[i].expected |-> GoodData(q - 1).payload[1]]

\* A session has committed every packet the peers send, in order.
C28_Witness ==
    \E i \in 1..Len(sessions) :
        /\ sessions[i].expected = MaxSeq + 1
        /\ Len(disk[sessions[i].path]) = MaxSeq + 1

\* C29: a DATA packet whose checksum field is not the CRC-32 of its payload
\* leaves every sink and the session's expected and received as they are,
\* also when its seq is expected, and is answered with one ACK whose seq is
\* expected - 1, or 0 when expected is 0.
C29_BadChecksumStep ==
    \A key \in Peers : \A d \in DataDatagrams :
        LET i == find_session(sessions, key)
            r == Handled(key, d, TRUE)
        IN  (i # 0 /\ ru_crc32(d.payload) # d.checksum) =>
            /\ r.disk = disk
            /\ Len(r.sessions) = Len(sessions)
            /\ r.sessions[i].expected = sessions[i].expected
            /\ r.sessions[i].received = sessions[i].received
            /\ Len(r.out) = 1
            /\ r.out[1].ptype = PT_ACK
            /\ r.out[1].seq = (IF sessions[i].expected = 0 THEN 0
                               ELSE sessions[i].expected - 1)

\* Both peers have sessions that wait for a packet the peers send: one has
\* committed nothing, the other one packet.
C29_Witness ==
    /\ Len(sessions) = 2
    /\ sessions[1].expected = 0
    /\ sessions[2].expected = 1

\* C30: a step of the receiver that replies ERROR leaves the session table and
\* the files as they were. A DATA packet of a peer without a session is
\* answered with ERROR "no session" only; a HANDSHAKE with fewer than 5 fields
\* is answered with ERROR "bad handshake" only.
C30_ErrorLeavesTable ==
    \A key \in Peers : \A p \in AnyDatagrams : \A ok \in FopenOutcomes(p) :
        LET r == Handled(key, p, ok)
            err == [ptype |-> PT_ERROR, seq |-> 0, total |-> 0, window |-> 0,
                    checksum |-> ZERO32, payload |-> <<>>]
        IN  /\ (\E k \in 1..Len(r.out) : r.out[k].ptype = PT_ERROR)
                => r.sessions = sessions /\ r.disk = disk
            /\ (p.ptype = PT_DATA /\ \A i \in 1..Len(sessions) : sessions[i].key # key)
                => r.out = <<[err EXCEPT !.payload = ERR_NO_SESSION]>>
            /\ (p.ptype = PT_HANDSHAKE /\ Len(split(p.payload, PIPE)) < 5)
                => r.out = <<[err EXCEPT !.payload = ERR_BAD_HANDSHAKE]>>

\* One peer has a session that committed two packets, the other has none.
C30_Witness ==
    /\ Len(sessions) = 1
    /\ sessions[1].expected = 2
\* A datagram that is not an ACK at or beyond base b: the packet as the
\* channel carries it, or the octets of a buffer, are looked at directly.
NotMovingAck(d, b) ==
    IF "raw" \notin DOMAIN d THEN ~(d.ptype = PT_ACK /\ d.seq >= b)
    ELSE \/ Len(d.raw) < 20
         \/ d.raw[1] # 82 \/ d.raw[2] # 85 \/ d.raw[3] # 1
         \/ 20 + d.raw[13] * 256 + d.raw[14] > Len(d.raw)
         \/ d.raw[4] # PT_ACK
         \/ d.raw[7] * 256 + d.raw[8] < b

\* C31: in Phase 2 the receive of a datagram that is not an ACK with
\* seq >= base (a stale or duplicate ACK, a packet of another type, a buffer
\* unpack() rejects) leaves base, timer_running and retries as they are and
\* does not set the timer's start anew; no receive changes nextseq.
C31_OtherDatagramsIgnored ==
    /\ [](InPhase2 =>
            \A d \in SenderInputs :
                NotMovingAck(d, base) =>
                    AfterInbound(d, base, nextseq, timer_running, retries)
                        = [base |-> base, timer_running |-> timer_running,
                           rearmed |-> FALSE, retries |-> retries, moved |-> FALSE])
    /\ [][RecvAck => nextseq' = nextseq]_vars

\* The sender waits in Phase 2 with base moved, the timer running and an
\* expiry counted: an ACK below base is a duplicate.
C31_Witness ==
    /\ pc = "recv"
    /\ base > 0
    /\ base < nextseq
    /\ timer_running
    /\ retries > 0
    /\ toS = SenderInputs

\* C32: in Phase 2, whatever ACKs were processed, base <= nextseq <= total.
C32_BaseWithinSent ==
    InPhase2 => base <= nextseq /\ nextseq <= total
SendsData == (Fill /\ nextseq' > nextseq) \/ (Timeout /\ pc' = "fill")

FinWasSent == \E p \in toR : p.ptype = PT_FIN

\* C34: the sender leaves the handshake for Phase 2 only by receiving a
\* HANDSHAKE_ACK and sends DATA only after that; a FIN is sent, and has been
\* sent, only with base = total; once a FIN was sent no HANDSHAKE and no DATA
\* is sent.
C34_PhaseOrdering ==
    /\ [][(pc \in {"hs_send", "hs_wait"} /\ pc' \notin {"hs_send", "hs_wait", "done"})
            => HsRecv /\ pc' = "fill" /\ \E p \in toS : p.ptype = PT_HANDSHAKE_ACK]_vars
    /\ [][SendsData => pc \in {"fill", "timer"}]_vars
    /\ []((\E p \in toR : p.ptype = PT_DATA) => pc \notin {"hs_send", "hs_wait"})
    /\ [](pc \in {"hs_send", "hs_wait"} => ~FinWasSent)
    /\ []((pc \in {"fin_send", "fin_wait"} \/ FinWasSent) => base = total)
    /\ [][FinWasSent => ~HsSend /\ ~SendsData]_vars
    /\ [](FinWasSent => pc \in {"fin_send", "fin_wait", "done"})

\* Both packets of a transfer were sent and acknowledged and the FIN is out.
C34_Witness ==
    /\ pc = "fin_wait"
    /\ FinWasSent
    /\ total = 2
    /\ base = 2
    /\ \E p \in toR : p.ptype = PT_DATA /\ p.seq = 1
\* The reply holds a HANDSHAKE_ACK.
Acked(r) == \E k \in 1..Len(r.out) : r.out[k].ptype = PT_HANDSHAKE_ACK

\* The step left a session of peer key with both counters at 0.
LeftFresh(r, key) ==
    \E j \in 1..Len(r.sessions) :
        /\ r.sessions[j].key = key
        /\ r.sessions[j].expected = 0
        /\ r.sessions[j].received = 0

\* What C35 says of the HANDSHAKE datagrams for which Covered holds: every
\* session of the table has its file; such a HANDSHAKE is answered with
\* HANDSHAKE_ACK if and only if the step leaves a session of the peer with
\* expected = received = 0; when fopen() fails the peer has no session
\* afterwards and no HANDSHAKE_ACK is sent.
SinkAndAck(Covered(_)) ==
    /\ \A i \in 1..Len(sessions) : sessions[i].path \in DOMAIN disk
    /\ \A key \in Peers : \A p \in AnyDatagrams : \A ok \in FopenOutcomes(p) :
        LET r == Handled(key, p, ok)
        IN  /\ (p.ptype = PT_HANDSHAKE /\ Covered(p)) => (Acked(r) <=> LeftFresh(r, key))
            /\ (p.ptype = PT_HANDSHAKE /\ ~Covered(p)) => ~Acked(r)
            /\ (StartsSession(p) /\ ~ok) =>
                /\ \A j \in 1..Len(r.sessions) : r.sessions[j].key # key
                /\ ~Acked(r)
            /\ \A j \in 1..Len(r.sessions) : r.sessions[j].path \in DOMAIN r.disk

\* C35 as stated, for every HANDSHAKE.
C35_AckIffSessionLeft == SinkAndAck(LAMBDA p : TRUE)

\* C35, amended: for every HANDSHAKE with the 5 fields; one with fewer is
\* never answered with HANDSHAKE_ACK, whatever session the peer has.
C35_AckIffSessionLeftWellFormed == SinkAndAck(StartsSession)

\* Both peers have a session that has committed nothing yet: a malformed
\* HANDSHAKE of either leaves that session in the table.
C35_Witness ==
    /\ Len(sessions) = 2
    /\ \A i \in 1..2 : sessions[i].expected = 0 /\ sessions[i].received = 0
    /\ \A i \in 1..2 : disk[sessions[i].path] = <<>>
\* C36: a datagram of any kind from a peer that has a session leaves that
\* session, if it is still the same one, with last_activity at the current
\* time.
C36_AnyDatagramRefreshes ==
    \A key \in Peers : \A p \in AnyDatagrams : \A ok \in FopenOutcomes(p) :
        LET i == find_session(sessions, key)
            r == Handled(key, p, ok)
            j == find_session(r.sessions, key)
        IN  (i # 0 /\ j # 0) => r.sessions[j].last_activity = now
\* C37: unpack() accepts a DATA datagram with length 0 and checksum field 0;
\* when its seq is the expected of the peer's session the receiver leaves
\* every file as it is, raises expected and received by one and sends one ACK
\* with the datagram's seq.
C37_EmptyDataAccepted ==
    \A key \in Peers : \A buf \in {x \in RawDatagrams : x[4] = PT_DATA /\ Len(x) = 20} :
        LET i == find_session(sessions, key)
            r == ServerHandle(ServerState, now, key, Decoded([raw |-> buf]), TRUE)
        IN  /\ unpack(buf).rc = 0
            /\ unpack(buf).p.payload = <<>>
            /\ (i # 0 /\ sessions[i].expected = buf[8]) =>
                /\ r.disk = disk
                /\ r.sessions[i].expected = sessions[i].expected + 1
                /\ r.sessions[i].received = sessions[i].received + 1
                /\ Len(r.out) = 1
                /\ r.out[1].ptype = PT_ACK
                /\ r.out[1].seq = buf[8]

\* A session has committed two packets and its sink is still empty.
C37_Witness ==
    \E i \in 1..Len(sessions) :
        /\ sessions[i].expected = 2
        /\ sessions[i].received = 2
        /\ disk[sessions[i].path] = <<>>
\* C38: for file sizes from 0 and chunk sizes from 1, total is the least
\* number of chunks that covers the file; chunk i is the octets at offsets
\* i*chunk up to min((i+1)*chunk, filesize); every chunk has 1..chunk octets
\* and only the last may have fewer; the chunks joined are the file; and no
\* DATA packet on the channel has an empty payload.
C38_Chunking ==
    /\ \A f \in (0..MaxFileSize) \cup LossSizes : \A c \in ChunkSizes \cup {3} :
        LET t == TotalPackets(f, c)
            file == FileData(f)
        IN  /\ t * c >= f
            /\ t = 0 \/ (t - 1) * c < f
            /\ \A i \in 0..(t - 1) :
                /\ Chunk(i, file, c) = [k \in 1..(Min((i + 1) * c, f) - i * c) |-> file[i * c + k]]
                /\ Len(Chunk(i, file, c)) \in 1..c
                /\ Len(Chunk(i, file, c)) < c => i = t - 1
            /\ Concat(t, file, c) = file
    /\ total = TotalPackets(params.filesize, params.chunk)
    /\ \A p \in toR : p.ptype = PT_DATA =>
        /\ p.seq < total
        /\ p.payload = Chunk(p.seq, data, params.chunk)
        /\ Len(p.payload) > 0

\* A one-octet file was sent in a single chunk shorter than the chunk size,
\* and the transfer ended well.
C38_Witness ==
    /\ params.filesize = 1
    /\ params.chunk = 2
    /\ exit_code = 0
    /\ \E p \in toR : p.ptype = PT_DATA /\ Len(p.payload) = 1
\* C39: pack() yields 20 octets and then the payload: magic 0x52 0x55 at
\* offsets 0-1, version at 2, type at 3, seq at 4-7, total at 8-11, length at
\* 12-13, window at 14-15, checksum at 16-19, each with the most significant
\* octet first, the payload from offset 20; unpack() reads every field from
\* the same offsets in the same order of octets.
C39_WireLayout ==
    /\ codec.step = "encoded" =>
        LET o == codec.out
            p == codec.p
            n == Len(p.payload)
            chk == IF p.ptype = PT_DATA /\ p.checksum = <<0, 0>> /\ n > 0
                   THEN ru_crc32(p.payload) ELSE p.checksum
        IN  /\ Len(o) = 20 + n
            /\ o[1] = 82 /\ o[2] = 85
            /\ o[3] = p.version
            /\ o[4] = p.ptype
            /\ o[5] * 256 + o[6] = p.seq[1] /\ o[7] * 256 + o[8] = p.seq[2]
            /\ o[9] * 256 + o[10] = p.total[1] /\ o[11] * 256 + o[12] = p.total[2]
            /\ o[13] * 256 + o[14] = n
            /\ o[15] * 256 + o[16] = p.window
            /\ o[17] * 256 + o[18] = chk[1] /\ o[19] * 256 + o[20] = chk[2]
            /\ \A k \in 1..n : o[20 + k] = p.payload[k]
    /\ codec.step = "decoded" =>
        LET b == codec.buf
            p == codec.p
        IN  /\ p.magic0 = b[1] /\ p.magic1 = b[2]
            /\ p.version = b[3]
            /\ p.ptype = b[4]
            /\ p.seq = <<b[5] * 256 + b[6], b[7] * 256 + b[8]>>
            /\ p.total = <<b[9] * 256 + b[10], b[11] * 256 + b[12]>>
            /\ p.length = b[13] * 256 + b[14]
            /\ p.window = b[15] * 256 + b[16]
            /\ p.checksum = <<b[17] * 256 + b[18], b[19] * 256 + b[20]>>
            /\ Len(p.payload) = p.length
            /\ \A k \in 1..p.length : p.payload[k] = b[20 + k]

\* A DATA packet whose seq has four different octets and whose window has a
\* non-zero high octet was encoded with a payload of two octets.
C39_Witness ==
    /\ codec.step = "encoded"
    /\ codec.p.ptype = PT_DATA
    /\ SubSeq(codec.out, 5, 8) = <<1, 2, 3, 4>>
    /\ SubSeq(codec.out, 15, 16) = <<1, 0>>
    /\ Len(codec.out) = 22
====
